---- MODULE Spec2Model ----
(***************************************************************************)
(* A model of SimpleSound.py: the note-frequency table, the four waveform  *)
(* generators and the multi-track mixer play_song.                         *)
(*                                                                         *)
(* Numbers.  Python floats are modelled as exact rationals [n, d] in       *)
(* lowest terms.  Durations, sample counts, the average and the            *)
(* normalisation are exact.  np.sin and np.arcsin(np.sin(.)) are evaluated *)
(* on a fixed-point grid of 1/Scale (Bhaskara's rational approximation of  *)
(* the sine; the triangle is piecewise linear); np.sign is exact.          *)
(* np.random.uniform is a nondeterministic choice between two values of    *)
(* [-0.5, 0.5).  A float division 0/0 yields NaN, as numpy does.           *)
(* The audio sink (sounddevice) is the list of the calls made on it.       *)
(*                                                                         *)
(* Beats are drawn from multiples of half a sample period, so that         *)
(* SAMPLE_RATE * duration takes integral and half-integral values of       *)
(* either sign while buffers stay a few samples long.  On these values     *)
(* the float product truncates to the same integer as the exact one.       *)
(***************************************************************************)
EXTENDS Integers, Sequences, FiniteSets, TLC

\* ------------------------------------------------------------------ bounds
MaxTracks == 2
MaxTotalPairs == 2
MaxGenHalves == 6
Scale == 64

\* ------------------------------------------------------- program constants
SAMPLE_RATE == 44100
BPM == 150
MidiLo == 21
MidiHi == 109

\* --------------------------------------------------------------- rationals
RECURSIVE GCD(_, _)
GCD(a, b) == IF b = 0 THEN a ELSE GCD(b, a % b)

Abs(x) == IF x < 0 THEN -x ELSE x

Rat(n, d) ==
  LET s == IF d < 0 THEN -1 ELSE 1
      g == GCD(Abs(n), Abs(d))
  IN  [n |-> (s * n) \div g, d |-> (s * d) \div g]

Zero == [n |-> 0, d |-> 1]
One == [n |-> 1, d |-> 1]
NaN == [n |-> 0, d |-> 0]

IsNaN(x) == x.d = 0
RatInt(k) == [n |-> k, d |-> 1]
RatAdd(x, y) == Rat(x.n * y.d + y.n * x.d, x.d * y.d)
RatMul(x, y) == Rat(x.n * y.n, x.d * y.d)
RatAbs(x) == [n |-> Abs(x.n), d |-> x.d]
RatLess(x, y) == x.n * y.d < y.n * x.d
RatLeq(x, y) == x.n * y.d <= y.n * x.d

\* Float division x / y: 0/0 is NaN (numpy warns and carries on).  A non-zero
\* numerator over zero (an infinity) is kept as the sign over zero.
RatDiv(x, y) ==
  IF y.n = 0
    THEN (IF x.n = 0 THEN NaN ELSE [n |-> (IF x.n < 0 THEN -1 ELSE 1), d |-> 0])
    ELSE Rat(x.n * y.d, x.d * y.n)

\* int(x): truncation toward zero.
PyIntMut(x) == (2 * x.n + x.d) \div (2 * x.d)
PyInt(x) == IF x.n >= 0 THEN x.n \div x.d ELSE -((-x.n) \div x.d)

\* Python's round(x): nearest integer, ties to the even one.
PyRound(x) ==
  LET f == x.n \div x.d
      r2 == 2 * (x.n - f * x.d)
  IN  IF r2 < x.d THEN f
      ELSE IF r2 > x.d THEN f + 1
      ELSE IF f % 2 = 0 THEN f ELSE f + 1

\* ------------------------------------------------------- frequency table
note_names == <<"C", "C#", "D", "D#", "E", "F", "F#", "G", "G#", "A", "A#", "B">>

\* round(440.0 * 2 ** ((midi - 69) / 12), 2) for midi = 21 .. 108, in
\* hundredths of a hertz.
FreqCentiHz ==
  <<2750, 2914, 3087, 3270, 3465, 3671, 3889, 4120, 4365, 4625, 4900, 5191,
    5500, 5827, 6174, 6541, 6930, 7342, 7778, 8241, 8731, 9250, 9800, 10383,
    11000, 11654, 12347, 13081, 13859, 14683, 15556, 16481, 17461, 18500,
    19600, 20765, 22000, 23308, 24694, 26163, 27718, 29366, 31113, 32963,
    34923, 36999, 39200, 41530, 44000, 46616, 49388, 52325, 55437, 58733,
    62225, 65926, 69846, 73999, 78399, 83061, 88000, 93233, 98777, 104650,
    110873, 117466, 124451, 131851, 139691, 147998, 156798, 166122, 176000,
    186466, 197553, 209300, 221746, 234932, 248902, 263702, 279383, 295996,
    313596, 332244, 352000, 372931, 395107, 418601>>

note_octave(midi) == (midi \div 12) - 1

NoteNameMut(midi) == note_names[(midi % 12) + 1]
note_name(midi) == note_names[(midi % 12) + 1] \o ToString(note_octave(midi))

note_freq(midi) == Rat(FreqCentiHz[midi - MidiLo + 1], 100)

\* note_freqs[name] = value on a dict kept as its list of (key, value) items
\* in insertion order: an existing key keeps its place and takes the value.
DictSet(items, key, val) ==
  IF \E k \in 1..Len(items) : items[k].key = key
    THEN [k \in 1..Len(items) |->
            IF items[k].key = key THEN [key |-> key, val |-> val] ELSE items[k]]
    ELSE Append(items, [key |-> key, val |-> val])

DictHas(items, key) == \E k \in 1..Len(items) : items[k].key = key
DictGet(items, key) ==
  items[CHOOSE k \in 1..Len(items) : items[k].key = key].val

\* The dict the loop `for midi in range(21, 109): note_freqs[name] = ...`
\* leaves: one item per distinct name, placed by the name's first index and
\* holding the value of its last index.
MidiRange == MidiLo..(MidiHi - 1)
FirstOfName == {m \in MidiRange : \A k \in MidiLo..(m - 1) : note_name(k) # note_name(m)}
LastOfName(m) ==
  CHOOSE k \in MidiRange :
    /\ note_name(k) = note_name(m)
    /\ \A j \in (k + 1)..(MidiHi - 1) : note_name(j) # note_name(m)

build_note_freqs ==
  [i \in 1..Cardinality(FirstOfName) |->
     LET m == CHOOSE x \in FirstOfName :
                Cardinality({y \in FirstOfName : y <= x}) = i
     IN  [key |-> note_name(m), val |-> note_freq(LastOfName(m))]]

NOTE_FREQS == build_note_freqs

\* ------------------------------------------------------------------ tempo
SECONDS_PER_BEAT == Rat(60, BPM)

beats_to_seconds(beats) == RatMul(beats, SECONDS_PER_BEAT)

\* ------------------------------------------------------ waveform generators
Half == [n |-> 1, d |-> 2]
MaxInt == 2 ^ 30 + (2 ^ 30 - 1)

\* floor(x * K) for 0 <= x < 1, kept inside the integer range.
Quantize(x, K) ==
  IF x.n <= MaxInt \div K THEN (x.n * K) \div x.d ELSE x.n \div (x.d \div K)

\* The fraction of a cycle reached at time t by frequency f, in [0, 1).
Phase(f, t) ==
  LET c == RatMul(f, t) IN Rat(c.n % c.d, c.d)

\* np.sign(np.sin(2 pi p)).
SignSin(p) ==
  IF p.n = 0 \/ 2 * p.n = p.d THEN 0
  ELSE IF 2 * p.n < p.d THEN 1 ELSE -1

\* np.sin(2 pi p) on the grid: sin(pi x) ~ 16x(1-x) / (5 - 4x(1-x)).
SinGrid(p) ==
  LET x == IF 2 * p.n < p.d THEN Rat(2 * p.n, p.d) ELSE Rat(2 * p.n - p.d, p.d)
      q == Quantize(x, Scale)
      w == q * (Scale - q)
      v == (Scale * 16 * w) \div (5 * Scale * Scale - 4 * w)
  IN  Rat(SignSin(p) * v, Scale)

\* 2 * np.arcsin(np.sin(2 pi p)) / np.pi on the grid: the triangle 4p,
\* 2 - 4p, 4p - 4 over the quarters of the cycle.
TriGrid(p) ==
  LET q == Quantize(p, 4 * Scale)
  IN  IF q <= Scale THEN Rat(q, Scale)
      ELSE IF q <= 3 * Scale THEN Rat(2 * Scale - q, Scale)
      ELSE Rat(q - 4 * Scale, Scale)

\* int(SAMPLE_RATE * d)
num_samples(d) == PyInt(RatMul(RatInt(SAMPLE_RATE), d))

\* np.linspace(0, d, num, endpoint=False)[i] for i = 0 .. num - 1
linspace(d, num, i) == Rat(i * d.n, num * d.d)

Raised == [ok |-> FALSE, buf |-> <<>>]
Returned(buf) == [ok |-> TRUE, buf |-> buf]

\* np.linspace, np.zeros and np.random.uniform raise ValueError on a
\* negative count.
sine_wave(f, d) ==
  LET num == num_samples(d)
  IN  IF num < 0 THEN Raised
      ELSE Returned([k \in 1..num |->
             RatMul(Half, SinGrid(Phase(f, linspace(d, num, k - 1))))])

square_wave(f, d) ==
  LET num == num_samples(d)
  IN  IF num < 0 THEN Raised
      ELSE Returned([k \in 1..num |->
             RatMul(Half, RatInt(SignSin(Phase(f, linspace(d, num, k - 1)))))])

triangle_wave(f, d) ==
  LET num == num_samples(d)
  IN  IF num < 0 THEN Raised
      ELSE Returned([k \in 1..num |->
             RatMul(Half, TriGrid(Phase(f, linspace(d, num, k - 1))))])

np_zeros(num) ==
  IF num < 0 THEN Raised ELSE Returned([k \in 1..num |-> Zero])

\* The values np.random.uniform(-0.5, 0.5) is drawn from: two values of
\* [-0.5, 0.5), one of each sign.
NoiseValues == {Rat(-1, 4), Rat(1, 4)}

\* noise_wave(d): every buffer np.random.uniform(-0.5, 0.5, num) can return.
noise_wave(d) ==
  LET num == num_samples(d)
  IN  IF num < 0 THEN {Raised}
      ELSE {Returned(b) : b \in [1..num -> NoiseValues]}

\* WAVES[wave](freq, duration) for the three pitched waveforms.
WaveNames == {"sine", "square", "triangle", "noise"}
WAVES(wave, f, d) ==
  CASE wave = "sine" -> sine_wave(f, d)
    [] wave = "square" -> square_wave(f, d)
    [] wave = "triangle" -> triangle_wave(f, d)

\* ------------------------------------------------------------ numpy helpers
\* np.pad(track, (0, n)): n trailing zeros.
NpPadMut(track, n) == [k \in 1..n |-> Zero] \o track
np_pad(track, n) == track \o [k \in 1..n |-> Zero]

RECURSIVE SumAt(_, _, _)
SumAt(rows, i, upto) ==
  IF upto = 0 THEN Zero ELSE RatAdd(SumAt(rows, i, upto - 1), rows[upto][i])

\* np.sum(rows, axis=0) for rows of one common length.
np_sum_axis0(rows) ==
  IF Len(rows) = 0 THEN <<>>
  ELSE [i \in 1..Len(rows[1]) |-> SumAt(rows, i, Len(rows))]

RECURSIVE IntMax(_)
IntMax(S) ==
  IF Cardinality(S) = 1 THEN CHOOSE x \in S : TRUE
  ELSE LET x == CHOOSE y \in S : TRUE
           m == IntMax(S \ {x})
       IN  IF x > m THEN x ELSE m

\* max(len(track) for track in track_waves), defined on a non-empty list.
max_len_of(tws) == IntMax({Len(tws[t]) : t \in 1..Len(tws)})

\* np.max(buf) on a non-empty buffer.
RECURSIVE np_max(_)
np_max(buf) ==
  IF Len(buf) = 1 THEN buf[1]
  ELSE LET m == np_max(Tail(buf))
       IN  IF RatLess(m, buf[1]) THEN buf[1] ELSE m

np_abs(buf) == [i \in 1..Len(buf) |-> RatAbs(buf[i])]

\* mix / np.max(np.abs(mix))
PeakMut(buf) == np_max(buf)
Peak(buf) == np_max(np_abs(buf))
normalize(buf) == [i \in 1..Len(buf) |-> RatDiv(buf[i], Peak(buf))]

\* ----------------------------------------------------------------- inputs
\* Beats that last k half sample periods: -1 gives a negative product above
\* -1, -3 a negative count, 3 a product of 1.5, 4 two samples.
BeatDen == 2 * ((SAMPLE_RATE * 60) \div BPM)
HalfSamples(k) == Rat(k, BeatDen)
Beats == {HalfSamples(k) : k \in {-1, 3, 4}}
Notes == {"REST", "C8", "H9"}
Pairs ==
  [note : Notes, beats : Beats] \cup {[note |-> "REST", beats |-> HalfSamples(-3)]}

TracksUpTo(k) == UNION {[1..j -> Pairs] : j \in 0..k}

RECURSIVE TrackLists(_, _)
TrackLists(m, budget) ==
  IF m = 0 THEN {<<>>}
  ELSE {<<>>} \cup
       UNION {{<<t>> \o rest : rest \in TrackLists(m - 1, budget - Len(t))} :
               t \in TracksUpTo(budget)}

\* ------------------------------------------------------------------- state
VARIABLES
  tracks,       \* play_song's argument: a list of lists of (note, beats)
  wave,         \* play_song's argument
  pc,           \* where play_song is
  ti,           \* index of `sequence` in tracks (from 1)
  pi,           \* index of the (note, beats) pair in sequence (from 1)
  song,         \* the buffer of the track being built
  track_waves,  \* the finished track buffers
  padded,       \* the padded track buffers
  mix,          \* the mix, averaged and then normalized in place
  sink,         \* the calls made on the audio sink (sounddevice), in order
  err,          \* the exception play_song raised, "none" so far
  gen,          \* one call of a waveform generator
  tab           \* build_note_freqs' locals

vars == <<tracks, wave, pc, ti, pi, song, track_waves, padded, mix, sink, err,
          gen, tab>>

songVars == <<tracks, wave, pc, ti, pi, song, track_waves, padded, mix, sink, err>>

GenIdle == [pc |-> "idle"]
TabIdle == [pc |-> "idle"]

SongIdle ==
  /\ tracks = <<>> /\ wave = "square" /\ pc = "idle" /\ ti = 1 /\ pi = 1
  /\ song = <<>> /\ track_waves = <<>> /\ padded = <<>> /\ mix = <<>>
  /\ sink = <<>> /\ err = "none"

\* -------------------------------------------------------------- play_song
Init ==
  /\ tracks \in TrackLists(MaxTracks, MaxTotalPairs)
  /\ wave \in WaveNames
  /\ pc = "for_track"
  /\ ti = 1 /\ pi = 1
  /\ song = <<>> /\ track_waves = <<>> /\ padded = <<>> /\ mix = <<>>
  /\ sink = <<>> /\ err = "none"
  /\ gen = GenIdle /\ tab = TabIdle

RaiseMut(e) ==
  /\ pc' = "play" /\ err' = e
  /\ UNCHANGED <<tracks, wave, ti, pi, song, track_waves, padded, mix, sink, gen, tab>>
Raise(e) ==
  /\ pc' = "raised" /\ err' = e
  /\ UNCHANGED <<tracks, wave, ti, pi, song, track_waves, padded, mix, sink, gen, tab>>

\* song = np.concatenate([song, samples])
ConcatMut(a, b) == b \o a
Concat(a, b) == a \o b

Extend(r) ==
  IF r.ok
    THEN /\ song' = Concat(song, r.buf)
         /\ pi' = pi + 1
         /\ UNCHANGED <<tracks, wave, pc, ti, track_waves, padded, mix, sink, err,
                        gen, tab>>
    ELSE Raise("ValueError: negative count")

\* for sequence in tracks: song = np.array([])
TrackBegin ==
  /\ pc = "for_track" /\ ti <= Len(tracks)
  /\ song' = <<>> /\ pi' = 1 /\ pc' = "for_pair"
  /\ UNCHANGED <<tracks, wave, ti, track_waves, padded, mix, sink, err, gen, tab>>

CurPair == tracks[ti][pi]
CurDuration == beats_to_seconds(CurPair.beats)

\* if note == "REST": samples = np.zeros(int(SAMPLE_RATE * duration))
PairRest ==
  /\ pc = "for_pair" /\ pi <= Len(tracks[ti])
  /\ CurPair.note = "REST"
  /\ Extend(np_zeros(num_samples(CurDuration)))

\* elif wave == "noise": samples = noise_wave(duration)
PairNoise ==
  /\ pc = "for_pair" /\ pi <= Len(tracks[ti])
  /\ CurPair.note # "REST" /\ wave = "noise"
  /\ \E r \in noise_wave(CurDuration) : Extend(r)

\* else: freq = NOTE_FREQS.get(note); raise if None; WAVES[wave](freq, duration)
NoteFreqsGetMut(note) ==
  IF DictHas(NOTE_FREQS, note)
    THEN [found |-> TRUE, freq |-> DictGet(NOTE_FREQS, note)]
    ELSE [found |-> TRUE, freq |-> RatInt(440)]
note_freqs_get(note) ==
  IF DictHas(NOTE_FREQS, note)
    THEN [found |-> TRUE, freq |-> DictGet(NOTE_FREQS, note)]
    ELSE [found |-> FALSE, freq |-> Zero]

PairNote ==
  /\ pc = "for_pair" /\ pi <= Len(tracks[ti])
  /\ CurPair.note # "REST" /\ wave # "noise"
  /\ LET got == note_freqs_get(CurPair.note)
     IN  IF ~got.found
           THEN Raise("ValueError: Unknown note")
           ELSE Extend(WAVES(wave, got.freq, CurDuration))

\* track_waves.append(song)
TrackEnd ==
  /\ pc = "for_pair" /\ pi > Len(tracks[ti])
  /\ track_waves' = Append(track_waves, song)
  /\ ti' = ti + 1 /\ pc' = "for_track"
  /\ UNCHANGED <<tracks, wave, pi, song, padded, mix, sink, err, gen, tab>>

TracksDone ==
  /\ pc = "for_track" /\ ti > Len(tracks)
  /\ pc' = "pad"
  /\ UNCHANGED <<tracks, wave, ti, pi, song, track_waves, padded, mix, sink, err,
                 gen, tab>>

\* max_len = max(...); padded = [np.pad(track, (0, max_len - len(track))) ...]
MaxRaisesMut(tws) == FALSE
MaxRaises(tws) == Len(tws) = 0

pad_all(tws) ==
  [t \in 1..Len(tws) |->
     np_pad(tws[t], (IF Len(tws) = 0 THEN 0 ELSE max_len_of(tws)) - Len(tws[t]))]

Pad ==
  /\ pc = "pad"
  /\ IF MaxRaises(track_waves)
       THEN Raise("ValueError: max() arg is an empty sequence")
       ELSE /\ padded' = pad_all(track_waves)
            /\ pc' = "mix"
            /\ UNCHANGED <<tracks, wave, ti, pi, song, track_waves, mix, sink, err,
                           gen, tab>>

\* mix = np.sum(padded, axis=0) / len(tracks)
average(rows, count) ==
  LET total == np_sum_axis0(rows)
  IN  [i \in 1..Len(total) |-> RatDiv(total[i], RatInt(count))]

Mix ==
  /\ pc = "mix"
  /\ mix' = average(padded, Len(tracks))
  /\ pc' = "normalize"
  /\ UNCHANGED <<tracks, wave, ti, pi, song, track_waves, padded, sink, err, gen, tab>>

\* mix = mix / np.max(np.abs(mix)); np.max raises on a zero-size array
Normalize ==
  /\ pc = "normalize"
  /\ IF Len(mix) = 0
       THEN Raise("ValueError: zero-size array to reduction operation maximum")
       ELSE /\ mix' = normalize(mix)
            /\ pc' = "play"
            /\ UNCHANGED <<tracks, wave, ti, pi, song, track_waves, padded, sink, err,
                           gen, tab>>

\* sd.play(mix, SAMPLE_RATE)
PlayCall(buf) == [op |-> "play", data |-> buf, rate |-> SAMPLE_RATE]
WaitCall == [op |-> "wait", data |-> <<>>, rate |-> 0]

Play ==
  /\ pc = "play"
  /\ sink' = Append(sink, PlayCall(mix))
  /\ pc' = "wait"
  /\ UNCHANGED <<tracks, wave, ti, pi, song, track_waves, padded, mix, err, gen, tab>>

\* sd.wait()
Wait ==
  /\ pc = "wait"
  /\ sink' = Append(sink, WaitCall)
  /\ pc' = "returned"
  /\ UNCHANGED <<tracks, wave, ti, pi, song, track_waves, padded, mix, err, gen, tab>>

Next ==
  \/ TrackBegin \/ PairRest \/ PairNoise \/ PairNote \/ TrackEnd \/ TracksDone
  \/ Pad \/ Mix \/ Normalize \/ Play \/ Wait

Spec == Init /\ [][Next]_vars

\* ------------------------------------------- one call of a generator
GenNotes == {"A0", "A4", "C8"}
GenDurations ==
  {Rat(k, 2 * SAMPLE_RATE) : k \in (-MaxGenHalves)..MaxGenHalves}

GenInit ==
  /\ SongIdle /\ tab = TabIdle
  /\ gen \in [pc : {"call"}, wave : WaveNames,
              f : {DictGet(NOTE_FREQS, n) : n \in GenNotes},
              d : GenDurations, out : {Raised}]

GenReturn(r) ==
  /\ gen' = [gen EXCEPT !.pc = "done", !.out = r]
  /\ UNCHANGED <<songVars, tab>>

GenSine ==
  /\ gen.pc = "call" /\ gen.wave = "sine"
  /\ GenReturn(sine_wave(gen.f, gen.d))

GenSquare ==
  /\ gen.pc = "call" /\ gen.wave = "square"
  /\ GenReturn(square_wave(gen.f, gen.d))

GenTriangle ==
  /\ gen.pc = "call" /\ gen.wave = "triangle"
  /\ GenReturn(triangle_wave(gen.f, gen.d))

GenNoise ==
  /\ gen.pc = "call" /\ gen.wave = "noise"
  /\ \E r \in noise_wave(gen.d) : GenReturn(r)

GenNext == GenSine \/ GenSquare \/ GenTriangle \/ GenNoise

SpecGen == GenInit /\ [][GenNext]_vars

\* ------------------------------------------------- build_note_freqs, stepwise
TabInit ==
  /\ SongIdle /\ gen = GenIdle
  /\ tab = [pc |-> "for", midi |-> MidiLo, name |-> "", freq |-> Zero,
            note_freqs |-> <<>>]

\* octave = ...; name = ...; freq = ...
TabName ==
  /\ tab.pc = "for" /\ tab.midi < MidiHi
  /\ tab' = [tab EXCEPT !.pc = "store", !.name = note_name(tab.midi),
                        !.freq = note_freq(tab.midi)]
  /\ UNCHANGED <<songVars, gen>>

\* note_freqs[name] = round(freq, 2)
TabStore ==
  /\ tab.pc = "store"
  /\ tab' = [tab EXCEPT !.pc = "for", !.midi = tab.midi + 1,
                        !.note_freqs = DictSet(tab.note_freqs, tab.name, tab.freq)]
  /\ UNCHANGED <<songVars, gen>>

\* return note_freqs
TabReturn ==
  /\ tab.pc = "for" /\ tab.midi >= MidiHi
  /\ tab' = [tab EXCEPT !.pc = "returned"]
  /\ UNCHANGED <<songVars, gen>>

TabNext == TabName \/ TabStore \/ TabReturn

SpecFreqs == TabInit /\ [][TabNext]_vars

\* -------------------------------------------------------------- properties
ErrUnknownNote == "ValueError: Unknown note"
ErrNegative == "ValueError: negative count"
ErrEmptyMax == "ValueError: max() arg is an empty sequence"
ErrZeroSize == "ValueError: zero-size array to reduction operation maximum"

Positions == {<<t, k>> : t \in 1..Len(tracks), k \in 1..MaxTotalPairs} \cap
             {q \in (1..MaxTracks) \X (1..MaxTotalPairs) :
                q[1] <= Len(tracks) /\ q[2] <= Len(tracks[q[1]])}
PairAt(q) == tracks[q[1]][q[2]]
Before(q, r) == q[1] < r[1] \/ (q[1] = r[1] /\ q[2] < r[2])

KnownNames == {NOTE_FREQS[i].key : i \in 1..Len(NOTE_FREQS)}
UnknownAt(q) == PairAt(q).note # "REST" /\ PairAt(q).note \notin KnownNames
HasUnknownNote == \E q \in Positions : UnknownAt(q)

\* SAMPLE_RATE * beats * 60 / BPM <= -1: the count int(.) gives is negative.
WholeNegativeAt(q) == PairAt(q).beats.n * SAMPLE_RATE * 60 <= -(PairAt(q).beats.d * BPM)
HasNegativeBeats == \E q \in Positions : PairAt(q).beats.n < 0

\* The sample of a track at i, silence past its end.
SampleOrZero(t, i) == IF i <= Len(track_waves[t]) THEN track_waves[t][i] ELSE Zero

RECURSIVE SumTracks(_, _)
SumTracks(i, t) ==
  IF t = 0 THEN Zero ELSE RatAdd(SumTracks(i, t - 1), SampleOrZero(t, i))

\* The average of the tracks at i, from the finished track buffers.
AverageAt(i) ==
  LET total == SumTracks(i, Len(track_waves))
  IN  Rat(total.n, total.d * Len(track_waves))

LongestLen ==
  CHOOSE n \in 0..(2 * MaxTotalPairs) :
    /\ \A t \in 1..Len(track_waves) : Len(track_waves[t]) <= n
    /\ \E t \in 1..Len(track_waves) : Len(track_waves[t]) = n

AverageSilent == \A i \in 1..LongestLen : AverageAt(i) = Zero

\* C1 as stated, on tracks whose beats are all non-negative: for every
\* non-empty track list and every waveform kind, an unknown note anywhere
\* makes play_song fail with the unknown-note error, with no mix produced and
\* the sink never invoked.
C1_UnknownNoteAbortsAnyWave ==
  (tracks # <<>> /\ HasUnknownNote /\ ~HasNegativeBeats) =>
    /\ sink = <<>> /\ mix = <<>>
    /\ pc # "returned"
    /\ pc = "raised" => err = ErrUnknownNote

\* C1 amended: for the pitched waveforms (sine, square, triangle) an unknown
\* note anywhere makes play_song fail during synthesis, with no padded or
\* mixed buffer produced and the sink never invoked; the failure is the
\* unknown-note error unless an earlier pair, in playing order, has a
\* duration of minus one sample or less, where numpy's ValueError comes first.
C1_UnknownNoteAbortsPitched ==
  (tracks # <<>> /\ wave # "noise" /\ HasUnknownNote) =>
    /\ sink = <<>> /\ mix = <<>> /\ padded = <<>>
    /\ pc \in {"for_track", "for_pair", "raised"}
    /\ pc # "raised" => err = "none"
    /\ pc = "raised" =>
         LET failing == {q \in Positions : UnknownAt(q) \/ WholeNegativeAt(q)}
             first == CHOOSE q \in failing : \A r \in failing : r = q \/ Before(q, r)
         IN  /\ ti = first[1] /\ pi = first[2]
             /\ err = IF UnknownAt(first) THEN ErrUnknownNote ELSE ErrNegative

\* C1 witness: the unknown note is met in a later track, after a first track
\* was synthesized in full, and play_song has raised the unknown-note error.
C1_Witness ==
  /\ wave # "noise" /\ HasUnknownNote
  /\ pc = "raised" /\ err = ErrUnknownNote
  /\ Len(track_waves) >= 1 /\ Len(track_waves[1]) >= 2

\* C2 as stated: when the averaged mix is entirely zero the buffer handed to
\* the sink is all zeros (no NaN sample).
C2_SilentMixPlaysZeros ==
  (sink # <<>> /\ AverageSilent) =>
    \A i \in 1..Len(sink[1].data) : sink[1].data[i] = Zero

\* C3: before normalization the mix is as long as the longest track buffer
\* and its sample at i is the sum of the tracks' samples at i (0 past a
\* track's end) divided by the number of tracks.
C3_MixIsPaddedAverage ==
  pc = "normalize" =>
    /\ Len(track_waves) = Len(tracks)
    /\ Len(mix) = LongestLen
    /\ \A i \in 1..Len(mix) : mix[i] = AverageAt(i)

\* C3 witness: two tracks of different non-zero lengths are mixed and the
\* region past the shorter one is not silent.
C3_Witness ==
  /\ pc = "normalize" /\ Len(track_waves) = 2
  /\ 0 < Len(track_waves[1]) /\ Len(track_waves[1]) < Len(track_waves[2])
  /\ track_waves[1][1] # Zero
  /\ mix[Len(mix)] # Zero

\* C4: when the averaged mix has a non-zero sample, the buffer handed to the
\* sink has every sample in [-1, 1] and some sample equal to 1 or -1.
C4_PeakIsOne ==
  (sink # <<>> /\ ~AverageSilent) =>
    LET buf == sink[1].data
    IN  /\ \A i \in 1..Len(buf) :
             /\ ~IsNaN(buf[i])
             /\ RatLeq(RatInt(-1), buf[i]) /\ RatLeq(buf[i], One)
        /\ \E i \in 1..Len(buf) : RatAbs(buf[i]) = One

\* C4 witness: a played buffer whose peak is negative, beside a sample that
\* is neither 0 nor a peak.
C4_Witness ==
  /\ sink # <<>>
  /\ \E i \in 1..Len(sink[1].data) : sink[1].data[i] = RatInt(-1)
  /\ \E i \in 1..Len(sink[1].data) : sink[1].data[i] = Half

\* The product SAMPLE_RATE * d of a generator call.
GenProduct == RatMul(RatInt(SAMPLE_RATE), gen.d)

\* C5 as stated: for a non-negative duration every generator returns a buffer
\* of length round(SAMPLE_RATE * d).
C5_LengthIsRound ==
  (gen.pc = "done" /\ gen.d.n >= 0) =>
    gen.out.ok /\ Len(gen.out.buf) = PyRound(GenProduct)

\* C5 amended: for a non-negative duration every generator returns a buffer
\* of length int(SAMPLE_RATE * d), the product truncated (its floor): the
\* largest integer not above the product, whatever its fractional part.
C5_LengthIsTruncation ==
  (gen.pc = "done" /\ gen.d.n >= 0) =>
    /\ gen.out.ok
    /\ Len(gen.out.buf) * GenProduct.d <= GenProduct.n
    /\ GenProduct.n < (Len(gen.out.buf) + 1) * GenProduct.d

\* C5 witness: a generator returned for a product with fractional part one
\* half, above one sample.
C5_Witness ==
  /\ gen.pc = "done" /\ gen.out.ok
  /\ GenProduct.d = 2 /\ GenProduct.n >= 3
  /\ Len(gen.out.buf) >= 1

\* C6 as stated: a negative duration, however small, is rejected and the
\* audio sink is not invoked.
C6_NegativeDurationRejected ==
  HasNegativeBeats => sink = <<>>

\* C7: play_song on an empty track list ends in an error, the ValueError of
\* max() on an empty sequence, and the sink is never invoked.
C7_EmptyTrackListFails ==
  tracks = <<>> =>
    /\ sink = <<>> /\ mix = <<>> /\ padded = <<>>
    /\ pc \in {"for_track", "pad", "raised"}
    /\ pc = "raised" <=> err # "none"
    /\ pc = "raised" => err = ErrEmptyMax

\* C7 witness: play_song on an empty track list has raised.
C7_Witness ==
  tracks = <<>> /\ pc = "raised" /\ track_waves = <<>>

\* The length of the segment of pair k of track t, and where it starts.
SegLen(t, k) == num_samples(beats_to_seconds(tracks[t][k].beats))

RECURSIVE SegStart(_, _)
SegStart(t, k) == IF k = 1 THEN 0 ELSE SegStart(t, k - 1) + SegLen(t, k - 1)

Segment(t, k) ==
  [j \in 1..SegLen(t, k) |-> track_waves[t][SegStart(t, k) + j]]

\* C8: whenever a track has just been finished, every finished track buffer
\* is the concatenation, in the order of the pairs, of one segment per pair,
\* of the length of a generator buffer for beats * 60 / BPM seconds; its
\* length is the sum of these; a segment of a REST pair is all zero for every
\* waveform kind, a segment of a note is the generator's buffer; one beat at
\* 150 BPM and 44100 Hz is 17640 samples.
C8_TrackIsConcatenation ==
  pc \in {"for_track", "pad"} =>
    /\ num_samples(beats_to_seconds(RatInt(1))) = 17640
    /\ \A t \in 1..Len(track_waves) :
         /\ \A k \in 1..Len(tracks[t]) : SegLen(t, k) >= 0
         /\ Len(track_waves[t]) = SegStart(t, Len(tracks[t]) + 1)
         /\ \A k \in 1..Len(tracks[t]) :
              LET pair == tracks[t][k]
                  d == beats_to_seconds(pair.beats)
              IN  IF pair.note = "REST"
                    THEN \A j \in 1..SegLen(t, k) : Segment(t, k)[j] = Zero
                  ELSE IF wave = "noise"
                    THEN \A j \in 1..SegLen(t, k) : Segment(t, k)[j] \in NoiseValues
                  ELSE Returned(Segment(t, k)) =
                         WAVES(wave, DictGet(NOTE_FREQS, pair.note), d)

\* C8 witness: a noise track of a note followed by a rest, two samples each.
C8_Witness ==
  /\ pc = "pad" /\ wave = "noise" /\ Len(track_waves) >= 1
  /\ Len(tracks[1]) = 2
  /\ tracks[1][1].note = "C8" /\ tracks[1][2].note = "REST"
  /\ Len(track_waves[1]) = 4
  /\ track_waves[1][2] # Zero

\* C9: the table has exactly 88 entries, one per index 21..108: the names of
\* distinct indices are distinct, the first key is "A0" and the last "C8".
C9_EightyEightNames ==
  tab.pc = "returned" =>
    /\ Len(tab.note_freqs) = 88
    /\ \A i, j \in 1..Len(tab.note_freqs) :
         i # j => tab.note_freqs[i].key # tab.note_freqs[j].key
    /\ \A m, k \in MidiLo..(MidiHi - 1) : m # k => note_name(m) # note_name(k)
    /\ tab.note_freqs[1].key = "A0"
    /\ tab.note_freqs[Len(tab.note_freqs)].key = "C8"
    /\ tab.note_freqs = NOTE_FREQS

\* C9 witness: the table was returned with a sharp of a second octave in it.
C9_Witness ==
  tab.pc = "returned" /\ DictHas(tab.note_freqs, "C#2")

\* C10: the sink's play is called at most once, with the final mix and
\* SAMPLE_RATE, after every track was synthesized and the mix padded,
\* averaged and normalized; the wait follows it at once; play_song returns
\* only after the wait; a play_song that raised never called the sink.
C10_PlayOnceAtTheEnd ==
  /\ Len(sink) <= 2
  /\ \A i \in 1..Len(sink) : sink[i].op = "play" <=> i = 1
  /\ sink # <<>> =>
       /\ sink[1].data = mix /\ sink[1].rate = SAMPLE_RATE
       /\ Len(track_waves) = Len(tracks) /\ Len(padded) = Len(tracks)
       /\ \A t \in 1..Len(tracks) : Len(track_waves[t]) = SegStart(t, Len(tracks[t]) + 1)
       /\ Len(mix) = LongestLen
       /\ \A i \in 1..Len(mix) :
            \/ RatAbs(mix[i]) = One
            \/ IsNaN(mix[i])
            \/ \E j \in 1..Len(mix) : RatAbs(mix[j]) = One /\ RatLess(RatAbs(mix[i]), One)
       /\ err = "none"
  /\ Len(sink) = 1 <=> pc = "wait"
  /\ Len(sink) = 2 <=> pc = "returned"
  /\ Len(sink) = 2 => sink[2].op = "wait"
  /\ pc = "raised" <=> err # "none"

\* C10 witness: play_song has returned after playing a mix of two tracks.
C10_Witness ==
  /\ pc = "returned" /\ Len(tracks) = 2
  /\ sink = <<PlayCall(mix), WaitCall>>
  /\ \E i \in 1..Len(mix) : mix[i] = One

====
